---- MODULE Spec2Model ----
(***************************************************************************)
(* Options chain scanner of project_webhook (options_data.py): expiry      *)
(* resolution, symbol generation, batched quote retrieval, activity        *)
(* filter, volume detection, ranking and the run_scanner envelope; and the  *)
(* trade tracker of the TradingView webhook (app.py).                      *)
(*                                                                         *)
(* Representation                                                          *)
(*  - a datetime is [day, hour, minute]; day counts days from Monday       *)
(*    2026-12-28, so weekday() is day % 7 and year/month/day come from the *)
(*    calendar walk in Civil;                                              *)
(*  - a JSON number is <<n>>, JSON null is <<>>, a key missing from a      *)
(*    mapping is a key outside DOMAIN; a JSON object is                    *)
(*    [type |-> "dict", items |-> f], any other JSON value [type |-> ..];  *)
(*  - prices (ltp, high, low) are held in hundredths, every other quantity *)
(*    in units; rankScore is held in thousandths, in exact arithmetic;     *)
(*  - a Python dict is the sequence of its <<key, value>> pairs in         *)
(*    insertion order.                                                     *)
(***************************************************************************)
EXTENDS Integers, Sequences, FiniteSets, TLC

VARIABLES
    now,          \* the wall clock read by datetime.now()
    cfg,          \* STRIKE_START, STRIKE_END, STRIKE_STEP, STRIKES_PER_BATCH
    expiry_dt,    \* module global _expiry_dt (YEAR, MONTH, EXPIRY_DATE)
    pc,           \* per invocation: "idle", "fetch", "rank", "done"
    start,        \* per invocation: loop variable of the batch loop
    raw_results,  \* per invocation: the local accumulator of options_main
    requested,    \* per invocation: the request bodies posted so far
    replies,      \* per invocation: what the upstream answered, per batch
    began,        \* per invocation: the clock when run_scanner was entered
    envelope,     \* per invocation: the value run_scanner returned
    trade_tracker,\* app.py global: ticker -> serial, open_trade, trades, ..
    current_day,  \* app.py global: the day the tracker belongs to
    response      \* what the webhook answered to the last request

vars == <<now, cfg, expiry_dt, pc, start, raw_results, requested, replies,
          began, envelope, trade_tracker, current_day, response>>

scanvars == <<pc, start, raw_results, requested, replies, began, envelope>>

hookvars == <<trade_tracker, current_day, response>>

-----------------------------------------------------------------------------
(* Bounds *)

\* last day of the clock in the expiry specification (two full weeks)
Horizon == 13

\* last day of the clock in the scanner specifications (Monday, Tuesday)
MaxDay == 1

\* number of overlapping invocations in the concurrent specification
NScans == 2

\* most quotes the upstream returns to one scan, over all its batches
MaxQuotes == 2

\* most trade records the tracker holds, over all its tickers
MaxTrades == 2

-----------------------------------------------------------------------------
(* INDEX and the configurations of the strike range *)

INDEX == "NIFTY"

\* shapes of STRIKE_START, STRIKE_END, STRIKE_STEP, STRIKES_PER_BATCH: the
\* strike count is a multiple of the batch size in the first two and, as in
\* the shipped 24000/27000/50/25, not a multiple in the third
Configs ==
    { [STRIKE_START |-> 100, STRIKE_END |-> 200, STRIKE_STEP |-> 50,
       STRIKES_PER_BATCH |-> 1],
      [STRIKE_START |-> 100, STRIKE_END |-> 200, STRIKE_STEP |-> 50,
       STRIKES_PER_BATCH |-> 2],
      [STRIKE_START |-> 100, STRIKE_END |-> 250, STRIKE_STEP |-> 50,
       STRIKES_PER_BATCH |-> 2] }

-----------------------------------------------------------------------------
(* datetime *)

IsLeap(y) == (y % 4 = 0 /\ y % 100 # 0) \/ y % 400 = 0

DaysInMonth(y, m) ==
    IF m = 2 THEN (IF IsLeap(y) THEN 29 ELSE 28)
    ELSE IF m \in {4, 6, 9, 11} THEN 30 ELSE 31

RECURSIVE Normalize(_, _, _)
Normalize(y, m, d) ==
    IF d <= DaysInMonth(y, m) THEN [year |-> y, month |-> m, day |-> d]
    ELSE IF m = 12 THEN Normalize(y + 1, 1, d - DaysInMonth(y, m))
    ELSE Normalize(y, m + 1, d - DaysInMonth(y, m))

\* the calendar date of a day count: day 0 is Monday 2026-12-28
Civil(n) == Normalize(2026, 12, 28 + n)

\* datetime.weekday(): Monday is 0
Weekday(dt) == dt.day % 7

\* datetime + timedelta(days = n)
PlusDays(dt, n) == [dt EXCEPT !.day = @ + n]

\* the datetime m minutes after dt
PlusMinutes(dt, m) ==
    LET t == dt.hour * 60 + dt.minute + m
    IN  [day |-> dt.day + t \div 1440, hour |-> (t % 1440) \div 60,
         minute |-> t % 60]

Before(a, b) ==
    \/ a.day < b.day
    \/ a.day = b.day /\ a.hour < b.hour
    \/ a.day = b.day /\ a.hour = b.hour /\ a.minute < b.minute

Pad2(n) == IF n < 10 THEN "0" \o ToString(n) ELSE ToString(n)

\* datetime.isoformat(), to the minute
IsoFormat(dt) ==
    LET c == Civil(dt.day)
    IN  ToString(c.year) \o "-" \o Pad2(c.month) \o "-" \o Pad2(c.day)
        \o "T" \o Pad2(dt.hour) \o ":" \o Pad2(dt.minute)

-----------------------------------------------------------------------------
(* Expiry resolver *)

get_weekly_expiry_late(n) ==
    LET weekday         == Weekday(n)
        days_to_tuesday == (1 - weekday) % 7
        expiry          == PlusDays(n, days_to_tuesday)
    IN  IF weekday = 1 /\ (n.hour > 15 \/ (n.hour = 15 /\ n.minute > 30))
        THEN PlusDays(expiry, 7)
        ELSE expiry

\* get_weekly_expiry() when datetime.now() is n.  The except branch is not
\* reachable: the arithmetic on datetimes of this century does not raise.
get_weekly_expiry(n) ==
    LET weekday         == Weekday(n)
        days_to_tuesday == (1 - weekday) % 7
        expiry          == PlusDays(n, days_to_tuesday)
    IN  IF weekday = 1 /\ (n.hour > 15 \/ (n.hour = 15 /\ n.minute >= 30))
        THEN PlusDays(expiry, 7)
        ELSE expiry

YearOf(dt)  == Civil(dt.day).year % 100
MonthOf(dt) == Civil(dt.day).month
DayOf(dt)   == Civil(dt.day).day

\* the module globals YEAR, MONTH, EXPIRY_DATE
YEAR        == YearOf(expiry_dt)
MONTH       == MonthOf(expiry_dt)
EXPIRY_DATE == DayOf(expiry_dt)

\* f"{INDEX}{YEAR:02d}{MONTH}{EXPIRY_DATE:02d}{strike}{opt_type}" for the
\* expiry e
SymbolFor(e, strike, opt_type) ==
    INDEX \o Pad2(YearOf(e)) \o ToString(MonthOf(e)) \o Pad2(DayOf(e))
          \o ToString(strike) \o opt_type

logical_to_groww_symbol(strike, opt_type) ==
    SymbolFor(expiry_dt, strike, opt_type)

\* f"{EXPIRY_DATE}-{MONTH}-20{YEAR}" for the expiry e
LabelFor(e) ==
    ToString(DayOf(e)) \o "-" \o ToString(MonthOf(e)) \o "-20"
        \o ToString(YearOf(e))

-----------------------------------------------------------------------------
(* Values, results of calls, dicts *)

Number(n) == <<n>>
None      == <<>>

Dict(f)   == [type |-> "dict", items |-> f]
EmptyDict == <<>>

\* a call either returns a value or raises an exception with a message
Return(v)  == [raised |-> FALSE, value |-> v]
Raise(msg) == [raised |-> TRUE, value |-> msg]

NoGet(data) == "'" \o data.type \o "' object has no attribute 'get'"
BadCompare(op) ==
    "'" \o op \o "' not supported between instances of 'NoneType' and 'int'"
BadAdd == "unsupported operand type(s) for +: 'NoneType'"

\* data.get(key, 0) on a dict
Get(data, key) ==
    IF key \in DOMAIN data.items THEN data.items[key] ELSE Number(0)

\* data.get(key) on a dict
GetOrNone(data, key) ==
    IF key \in DOMAIN data.items THEN data.items[key] ELSE None

Keys(d) == { d[i][1] : i \in 1..Len(d) }

Lookup(d, k) == d[CHOOSE i \in 1..Len(d) : d[i][1] = k][2]

\* d[k] = v
DictSet(d, k, v) ==
    IF k \in Keys(d)
    THEN [i \in 1..Len(d) |-> IF d[i][1] = k THEN <<k, v>> ELSE d[i]]
    ELSE Append(d, <<k, v>>)

RECURSIVE DictUpdateFrom(_, _, _)
DictUpdateFrom(d, data, i) ==
    IF i > Len(data) THEN d
    ELSE DictUpdateFrom(DictSet(d, data[i][1], data[i][2]), data, i + 1)

\* d.update(data)
DictUpdate(d, data) == DictUpdateFrom(d, data, 1)

Abs(x) == IF x < 0 THEN -x ELSE x

-----------------------------------------------------------------------------
(* Helpers of the scanner *)

\* has_valid_volume(data)
has_valid_volume(data) ==
    IF data.type # "dict" THEN Raise(NoGet(data))
    ELSE LET volume == Get(data, "volume")
         IN  IF volume = None THEN Raise(BadCompare(">"))
             ELSE Return(volume[1] > 0)

is_active_strike_loose(data) ==
    IF data.type # "dict" THEN Raise(NoGet(data))
    ELSE LET oi   == Get(data, "openInterest")
             buy  == Get(data, "totalBuyQty")
             sell == Get(data, "totalSellQty")
             ltp  == Get(data, "ltp")
         IN  IF oi = None THEN Raise(BadCompare(">="))
             ELSE IF ~(oi[1] > 3000) THEN Return(FALSE)
             ELSE IF buy = None \/ sell = None THEN Raise(BadAdd)
             ELSE IF ~(buy[1] + sell[1] >= 15000) THEN Return(FALSE)
             ELSE IF ltp = None THEN Raise(BadCompare(">"))
             ELSE Return(ltp[1] > 100)

\* is_active_strike(data); ltp is in hundredths, so ltp > 1 is ltp > 100
is_active_strike(data) ==
    IF data.type # "dict" THEN Raise(NoGet(data))
    ELSE LET oi   == Get(data, "openInterest")
             buy  == Get(data, "totalBuyQty")
             sell == Get(data, "totalSellQty")
             ltp  == Get(data, "ltp")
         IN  IF oi = None THEN Raise(BadCompare(">="))
             ELSE IF ~(oi[1] >= 3000) THEN Return(FALSE)
             ELSE IF buy = None \/ sell = None THEN Raise(BadAdd)
             ELSE IF ~(buy[1] + sell[1] >= 15000) THEN Return(FALSE)
             ELSE IF ltp = None THEN Raise(BadCompare(">"))
             ELSE Return(ltp[1] > 100)

\* liquidity_score(data) in thousandths: the arithmetic raises on a null
\* operand and the except branch returns 0
liquidity_score(data) ==
    LET oi   == Get(data, "openInterest")
        buy  == Get(data, "totalBuyQty")
        sell == Get(data, "totalSellQty")
        ltq  == Get(data, "lastTradeQty")
        high == Get(data, "high")
        low  == Get(data, "low")
    IN  IF None \in {oi, buy, sell, ltq, high, low} THEN 0
        ELSE oi[1] * 400 + (buy[1] + sell[1]) * 300 + ltq[1] * 200
             + Abs(high[1] - low[1])

\* volume_signal(data)
volume_signal(data) ==
    LET vol == Get(data, "volume")
        oi  == Get(data, "openInterest")
    IN  IF vol = None THEN Raise(BadCompare(">="))
        ELSE IF vol[1] >= 50000 /\ oi = None THEN Raise(BadCompare(">="))
        ELSE IF vol[1] >= 50000 /\ oi[1] >= 20000 THEN Return("VERY_HIGH")
        ELSE IF vol[1] >= 20000 THEN Return("HIGH")
        ELSE IF vol[1] >= 5000 THEN Return("MEDIUM")
        ELSE IF vol[1] > 0 THEN Return("LOW")
        ELSE Return("UNAVAILABLE")

\* vs.replace('_', ' ')
Spaced(vs) == IF vs = "VERY_HIGH" THEN "VERY HIGH" ELSE vs

\* build_context(data, volume_available), called on quotes that passed
\* is_active_strike and volume_signal, whose fields read here are numbers
build_context(data, volume_available) ==
    LET vol  == Get(data, "volume")[1]
        oi   == Get(data, "openInterest")[1]
        buy  == Get(data, "totalBuyQty")[1]
        sell == Get(data, "totalSellQty")[1]
        ltp  == Get(data, "ltp")[1]
        vs   == volume_signal(data).value
        r1   == IF volume_available /\ vol > 0
                THEN <<"High traded volume">>
                ELSE <<"Volume unavailable, ranked using liquidity metrics">>
        r2   == IF oi >= 30000
                THEN <<"Strong open interest (institutional positioning)">>
                ELSE IF oi >= 10000 THEN <<"Moderate open interest">>
                ELSE <<>>
        r3   == IF buy > sell * 2
                THEN <<"Strong buying interest (buy qty >> sell qty)">>
                ELSE IF sell > buy * 2
                THEN <<"Strong selling pressure (sell qty >> buy qty)">>
                ELSE <<>>
        r4   == IF ltp < 3000
                THEN <<"Low premium option, high gamma move potential">>
                ELSE IF ltp > 15000
                THEN <<"High premium option, likely ATM/ITM and actively traded">>
                ELSE <<>>
        r5   == IF vs # "UNAVAILABLE"
                THEN <<Spaced(vs) \o " volume participation">>
                ELSE <<>>
    IN  r1 \o r2 \o r3 \o r4 \o r5

\* build_conclusion(data), on the same quotes
build_conclusion(data) ==
    LET oi   == Get(data, "openInterest")[1]
        buy  == Get(data, "totalBuyQty")[1]
        sell == Get(data, "totalSellQty")[1]
        ltp  == Get(data, "ltp")[1]
    IN  IF buy > sell * 2 /\ oi >= 5000
        THEN [bias |-> "BUY",
              confidence |-> IF ltp < 3000 THEN "HIGH" ELSE "MEDIUM",
              reason |-> "Strong buying interest with favorable risk-reward"]
        ELSE IF sell > buy * 2 /\ oi >= 10000 /\ ltp >= 8000
        THEN [bias |-> "SELL", confidence |-> "MEDIUM",
              reason |-> "Heavy selling pressure with high open interest"]
        ELSE [bias |-> "NEUTRAL", confidence |-> "LOW",
              reason |-> "No strong directional edge"]

-----------------------------------------------------------------------------
(* options_main after the fetch loop: volume detection, filter, rank, sort *)

RECURSIVE AnyValidVolume(_, _)
\* any(has_valid_volume(d) for d in raw_results.values()): stops at the first
\* quote with volume, raises at the first quote it cannot read
AnyValidVolume(raw, i) ==
    IF i > Len(raw) THEN Return(FALSE)
    ELSE LET r == has_valid_volume(raw[i][2])
         IN  IF r.raised THEN r
             ELSE IF r.value THEN Return(TRUE)
             ELSE AnyValidVolume(raw, i + 1)

RankScoreOwn(data, volume_available) ==
    IF Get(data, "volume")[1] > 0 THEN Get(data, "volume")[1] * 1000
    ELSE liquidity_score(data)

\* entry["rankScore"], in thousandths
RankScore(data, volume_available) ==
    IF volume_available THEN Get(data, "volume")[1] * 1000
    ELSE liquidity_score(data)

\* the entry built for an active quote
Entry(data, volume_available) ==
    [ltp          |-> GetOrNone(data, "ltp"),
     openInterest |-> GetOrNone(data, "openInterest"),
     volume       |-> Get(data, "volume"),
     totalBuyQty  |-> Get(data, "totalBuyQty"),
     totalSellQty |-> Get(data, "totalSellQty"),
     lastTradeQty |-> Get(data, "lastTradeQty"),
     volumeSignal |-> volume_signal(data).value,
     rankScore    |-> RankScore(data, volume_available),
     context      |-> build_context(data, volume_available),
     conclusion   |-> build_conclusion(data)]

RECURSIVE FilterFrom(_, _, _, _)
\* the filter loop over raw_results.items(), filtered_data so far in acc
FilterFrom(raw, i, volume_available, acc) ==
    IF i > Len(raw) THEN Return(acc)
    ELSE LET symbol == raw[i][1]
             data   == raw[i][2]
             active == is_active_strike(data)
         IN  IF active.raised THEN active
             ELSE IF ~active.value
             THEN FilterFrom(raw, i + 1, volume_available, acc)
             ELSE IF volume_signal(data).raised THEN volume_signal(data)
             ELSE FilterFrom(raw, i + 1, volume_available,
                             DictSet(acc, symbol,
                                     Entry(data, volume_available)))

\* where a stable descending sort puts item among the items before it: after
\* every item whose score is not smaller
InsertDescending(sorted, item) ==
    LET k == Cardinality({ j \in 1..Len(sorted) :
                             sorted[j][2].rankScore >= item[2].rankScore })
    IN  SubSeq(sorted, 1, k) \o <<item>> \o SubSeq(sorted, k + 1, Len(sorted))

RECURSIVE SortFrom(_, _, _)
SortFrom(items, i, sorted) ==
    IF i > Len(items) THEN sorted
    ELSE SortFrom(items, i + 1, InsertDescending(sorted, items[i]))

\* dict(sorted(items, key = rankScore, reverse = True)): the sort is stable
SortedByRank(items) == SortFrom(items, 1, <<>>)

\* options_main from "if not raw_results" to its return
RankResults(raw) ==
    IF raw = EmptyDict THEN Return(EmptyDict)
    ELSE LET va == AnyValidVolume(raw, 1)
         IN  IF va.raised THEN va
             ELSE LET filtered == FilterFrom(raw, 1, va.value, EmptyDict)
                  IN  IF filtered.raised THEN filtered
                      ELSE Return(SortedByRank(filtered.value))

EnvelopeUncaught(result, at) ==
    IF result.raised
    THEN [status |-> "exception", message |-> result.value]
    ELSE IF result.value = EmptyDict
    THEN [status |-> "empty", message |-> "No active options found",
          timestamp |-> IsoFormat(at), data |-> EmptyDict]
    ELSE [status |-> "success", expiry |-> LabelFor(expiry_dt),
          count |-> Len(result.value), timestamp |-> IsoFormat(at),
          data |-> result.value]

\* what run_scanner returns for the outcome of options_main, at clock at
Envelope(result, at) ==
    IF result.raised
    THEN [status |-> "error", message |-> result.value,
          timestamp |-> IsoFormat(at), data |-> EmptyDict]
    ELSE IF result.value = EmptyDict
    THEN [status |-> "empty", message |-> "No active options found",
          timestamp |-> IsoFormat(at), data |-> EmptyDict]
    ELSE [status |-> "success", expiry |-> LabelFor(expiry_dt),
          count |-> Len(result.value), timestamp |-> IsoFormat(at),
          data |-> result.value]

-----------------------------------------------------------------------------
(* The batch loop *)

RECURSIVE Range(_, _, _)
\* list(range(a, b, step)), step > 0
Range(a, b, step) ==
    IF a >= b THEN <<>> ELSE <<a>> \o Range(a + step, b, step)

BatchSpan == cfg.STRIKE_STEP * cfg.STRIKES_PER_BATCH

RECURSIVE SymbolsOf(_)
\* CE then PE of every strike of the sequence
SymbolsOf(strikes) ==
    IF strikes = <<>> THEN <<>>
    ELSE << logical_to_groww_symbol(Head(strikes), "CE"),
            logical_to_groww_symbol(Head(strikes), "PE") >>
         \o SymbolsOf(Tail(strikes))

\* the strikes of the inner loop for the batch that starts at from
BatchStrikes(from) == Range(from, from + BatchSpan, cfg.STRIKE_STEP)

\* the request body of the batch that starts at from
BatchAt(from) == SymbolsOf(BatchStrikes(from))

-----------------------------------------------------------------------------
(* The upstream feed *)

\* an active quote on every boundary of the filter, volume and sell side
\* missing
QuoteBoundary ==
    Dict([openInterest |-> Number(3000), totalBuyQty |-> Number(15000),
          ltp |-> Number(101)])

\* an active quote with traded volume
QuoteTraded ==
    Dict([openInterest |-> Number(12000), totalBuyQty |-> Number(5000),
          totalSellQty |-> Number(10000), ltp |-> Number(9000),
          volume |-> Number(500), lastTradeQty |-> Number(50),
          high |-> Number(9500), low |-> Number(8800)])

\* an active quote without volume and with the larger liquidity score
QuoteLiquid ==
    Dict([openInterest |-> Number(40000), totalBuyQty |-> Number(30000),
          totalSellQty |-> Number(9000), ltp |-> Number(2500),
          volume |-> Number(0), lastTradeQty |-> Number(75),
          high |-> Number(2400), low |-> Number(2650)])

\* inactive by open interest alone, with heavy volume
QuoteThinOI ==
    Dict([openInterest |-> Number(2999), totalBuyQty |-> Number(40000),
          totalSellQty |-> Number(40000), ltp |-> Number(5000),
          volume |-> Number(60000)])

\* inactive by order quantity alone
QuoteThinBook ==
    Dict([openInterest |-> Number(3000), totalBuyQty |-> Number(7000),
          totalSellQty |-> Number(7999), ltp |-> Number(101)])

\* inactive by price alone
QuotePenny ==
    Dict([openInterest |-> Number(3000), totalBuyQty |-> Number(15000),
          ltp |-> Number(100)])

\* openInterest is null
QuoteNullOI ==
    Dict([openInterest |-> None, totalBuyQty |-> Number(15000),
          ltp |-> Number(101)])

\* volume is null on an otherwise active quote
QuoteNullVolume ==
    Dict([openInterest |-> Number(3000), totalBuyQty |-> Number(15000),
          ltp |-> Number(101), volume |-> None])

\* a quote value that is a JSON array
QuoteList == [type |-> "list"]

Quotes ==
    { QuoteBoundary, QuoteTraded, QuoteLiquid, QuoteThinOI, QuoteThinBook,
      QuotePenny, QuoteNullOI, QuoteNullVolume, QuoteList }

\* the feed of the concurrent and the clock specifications: one quote, one
\* kind of failure
FewQuotes == { QuoteBoundary }

FewFailures == { "timeout" }

\* how a fetch can fail: requests.Timeout, requests.HTTPError, any other
\* exception (connection error, body that is not JSON), a JSON body that is
\* not a mapping
Failures == { "timeout", "http_error", "exception", "not_dict" }

RECURSIVE BodiesOfLen(_, _, _)
\* the mappings of n of the symbols of keys to quotes of Q, the keys listed
\* in any order
BodiesOfLen(keys, Q, n) ==
    IF n = 0 THEN { EmptyDict }
    ELSE UNION { { Append(d, <<k, q>>) : k \in keys \ Keys(d), q \in Q } :
                 d \in BodiesOfLen(keys, Q, n - 1) }

\* the mappings the upstream can answer a batch with: quotes for some of the
\* requested symbols, at most room of them
Bodies(batch, Q, room) ==
    UNION { BodiesOfLen({ batch[i] : i \in 1..Len(batch) }, Q, n) :
            n \in 0..room }

\* the outcomes of the post of a batch
Replies(batch, Q, F, room) ==
    { [outcome |-> f, data |-> EmptyDict] : f \in F }
        \cup { [outcome |-> "ok", data |-> d] : d \in Bodies(batch, Q, room) }

\* fetch_live_data(symbols) when the upstream answers reply
fetch_live_data(reply) ==
    IF reply.outcome = "ok" THEN reply.data ELSE EmptyDict

-----------------------------------------------------------------------------
(* Invocations of run_scanner *)

Scans == 1..NScans

FrameShared(s) == 1

\* raw_results is a local of options_main: every invocation has its own
Frame(s) == s

MergeReplace(raw, data) == data

\* raw_results.update(data)
Merge(raw, data) == DictUpdate(raw, data)

\* the clock readings of the scanner specifications
ScanMoments ==
    { [day |-> d, hour |-> 15, minute |-> m] : d \in 0..MaxDay, m \in {29, 30} }

\* the reading of the clock at which the specifications with a standing
\* clock import the module: Monday 2026-12-28, 15:29
ImportMoment == [day |-> 0, hour |-> 15, minute |-> 29]

\* every minute of the days up to Horizon
AllMoments ==
    { [day |-> d, hour |-> h, minute |-> m] :
        d \in 0..Horizon, h \in 0..23, m \in 0..59 }

NoEnvelope == [status |-> "none"]

\* trade_tracker = {}
NoTickers == <<>>

\* no request has been answered
NoResponse == [code |-> 0]

\* the module is imported at clock m with configuration c: the expiry is
\* resolved once, no invocation has started
Import(m, c) ==
    /\ now = m
    /\ cfg = c
    /\ expiry_dt = get_weekly_expiry(m)
    /\ pc = [s \in Scans |-> "idle"]
    /\ start = [s \in Scans |-> c.STRIKE_START]
    /\ raw_results = [s \in Scans |-> EmptyDict]
    /\ requested = [s \in Scans |-> <<>>]
    /\ replies = [s \in Scans |-> <<>>]
    /\ began = [s \in Scans |-> m]
    /\ envelope = [s \in Scans |-> NoEnvelope]
    /\ trade_tracker = NoTickers
    /\ current_day = m.day
    /\ response = NoResponse

\* the clock moves on to m
Tick(m) ==
    /\ Before(now, m)
    /\ now' = m
    /\ UNCHANGED <<cfg, expiry_dt, scanvars, hookvars>>

\* the process is started again at clock m
Restart(m) ==
    /\ Before(now, m)
    /\ now' = m
    /\ expiry_dt' = get_weekly_expiry(m)
    /\ pc' = [s \in Scans |-> "idle"]
    /\ start' = [s \in Scans |-> cfg.STRIKE_START]
    /\ raw_results' = [s \in Scans |-> EmptyDict]
    /\ requested' = [s \in Scans |-> <<>>]
    /\ replies' = [s \in Scans |-> <<>>]
    /\ began' = [s \in Scans |-> m]
    /\ envelope' = [s \in Scans |-> NoEnvelope]
    /\ trade_tracker' = NoTickers
    /\ current_day' = m.day
    /\ response' = NoResponse
    /\ UNCHANGED cfg

\* run_scanner is entered, for the first time or after its last return, and
\* options_main reaches its batch loop
StartScan(s) ==
    /\ pc[s] \in {"idle", "done"}
    /\ began' = [began EXCEPT ![s] = now]
    /\ raw_results' = [raw_results EXCEPT ![Frame(s)] = EmptyDict]
    /\ start' = [start EXCEPT ![s] = cfg.STRIKE_START]
    /\ requested' = [requested EXCEPT ![s] = <<>>]
    /\ replies' = [replies EXCEPT ![s] = <<>>]
    /\ envelope' = [envelope EXCEPT ![s] = NoEnvelope]
    /\ pc' = [pc EXCEPT ![s] = IF cfg.STRIKE_START < cfg.STRIKE_END
                               THEN "fetch" ELSE "rank"]
    /\ UNCHANGED <<now, cfg, expiry_dt, hookvars>>

\* one round of the batch loop: build the batch, post it, merge the answer
FetchBatch(s, Q, F) ==
    /\ pc[s] = "fetch"
    /\ LET batch == BatchAt(start[s])
       IN  \E reply \in Replies(batch, Q, F,
                                  MaxQuotes - Len(raw_results[Frame(s)])) :
             /\ requested' = [requested EXCEPT ![s] = Append(@, batch)]
             /\ replies' = [replies EXCEPT ![s] = Append(@, reply)]
             /\ raw_results' =
                    [raw_results EXCEPT
                       ![Frame(s)] = Merge(@, fetch_live_data(reply))]
    /\ start' = [start EXCEPT ![s] = @ + BatchSpan]
    /\ pc' = [pc EXCEPT ![s] = IF start[s] + BatchSpan < cfg.STRIKE_END
                               THEN "fetch" ELSE "rank"]
    /\ UNCHANGED <<now, cfg, expiry_dt, began, envelope, hookvars>>

\* the rest of options_main and the return of run_scanner
Finish(s) ==
    /\ pc[s] = "rank"
    /\ envelope' = [envelope EXCEPT
                      ![s] = Envelope(RankResults(raw_results[Frame(s)]), now)]
    /\ pc' = [pc EXCEPT ![s] = "done"]
    /\ UNCHANGED <<now, cfg, expiry_dt, start, raw_results, requested,
                   replies, began, hookvars>>

-----------------------------------------------------------------------------
(* Specifications *)

\* one invocation against the full feed, within one reading of the clock
Init == \E c \in Configs : Import(ImportMoment, c)

Next ==
    \/ StartScan(1)
    \/ FetchBatch(1, Quotes, Failures)
    \/ Finish(1)

Spec == Init /\ [][Next]_vars

ConcConfig == CHOOSE c \in Configs : c.STRIKES_PER_BATCH = 1

\* invocations of a long-running process while the clock runs
InitClock == \E m \in ScanMoments : Import(m, ConcConfig)

NextClock ==
    \/ \E m \in ScanMoments : Tick(m)
    \/ StartScan(1)
    \/ FetchBatch(1, FewQuotes, FewFailures)
    \/ Finish(1)

SpecClock == InitClock /\ [][NextClock]_vars

\* overlapping invocations within one reading of the clock
InitConc == Import(ImportMoment, ConcConfig)

NextConc ==
    \E s \in Scans :
        \/ StartScan(s)
        \/ FetchBatch(s, FewQuotes, FewFailures)
        \/ Finish(s)

SpecConc == InitConc /\ [][NextConc]_vars

\* the expiry resolver over every minute of two weeks: the process is
\* started, and started again a minute or a day later
InitExpiry ==
    \E m \in AllMoments : Import(m, ConcConfig)

NextExpiry ==
    \E d \in {1, 1440} :
        /\ PlusMinutes(now, d) \in AllMoments
        /\ Restart(PlusMinutes(now, d))

SpecExpiry == InitExpiry /\ [][NextExpiry]_vars

-----------------------------------------------------------------------------
(* The TradingView webhook and its trade tracker (app.py) *)

\* a Python value that is not None
Some(v) == <<v>>

\* str(x).upper() on the signals of the alerts
Upper(x) ==
    CASE x = "Sell" -> "SELL"
      [] x = "hold" -> "HOLD"
      [] OTHER      -> x

\* bool(data.get(key)) for a string field: a missing key and "" are falsy
Truthy(data, key) == key \in DOMAIN data.items /\ data.items[key] # ""

\* datetime.now().strftime("%Y-%m-%d %H:%M:%S"), at the start of the minute
Strftime(dt) ==
    LET c == Civil(dt.day)
    IN  ToString(c.year) \o "-" \o Pad2(c.month) \o "-" \o Pad2(c.day)
        \o " " \o Pad2(dt.hour) \o ":" \o Pad2(dt.minute) \o ":00"

\* the alerts TradingView posts: any of the fields may be missing, and the
\* time, when sent, is empty, so that every alert is stamped by the clock
Alerts ==
    { Dict([k \in K \cup {"candle_low", "candle_high"} |-> v[k]]) :
        K \in SUBSET {"signal", "ticker", "asset", "time"},
        v \in [signal : {"BUY", "Sell", "hold"},
               ticker : {"NIFTY"}, asset : {"BANKNIFTY"},
               time : {""},
               candle_low : {Number(24950)}, candle_high : {Number(25010)}] }

\* the bodies a request can carry: an alert, a JSON array, no JSON at all
Payloads == Alerts \cup { [type |-> "list"], [type |-> "invalid"] }

\* what send_telegram_message returns: None or the id of the message
MessageIds == { None, Some(7) }

\* the entry made for a ticker seen for the first time
NewTicker ==
    [serial |-> 0, open_trade |-> FALSE, buy_message_id |-> None,
     trades |-> <<>>]

\* the branch "if signal == BUY"
OnBuy(trade, alert_time, candle_low) ==
    [trade EXCEPT
       !.serial = @ + 1,
       !.open_trade = TRUE,
       !.trades = Append(@, [serial |-> trade.serial + 1,
                             buy_time |-> Some(alert_time),
                             buy_price |-> candle_low,
                             sell_time |-> None,
                             sell_price |-> None])]

\* the branch "elif signal == SELL"
OnSell(trade, alert_time, candle_high) ==
    IF trade.trades # <<>>
       /\ trade.trades[Len(trade.trades)].sell_time = None
    THEN [trade EXCEPT
            !.open_trade = FALSE,
            !.trades[Len(trade.trades)] =
                [@ EXCEPT !.sell_time = Some(alert_time),
                          !.sell_price = candle_high]]
    ELSE [trade EXCEPT
            !.serial = @ + 1,
            !.open_trade = FALSE,
            !.trades = Append(@, [serial |-> trade.serial + 1,
                                  buy_time |-> None,
                                  buy_price |-> None,
                                  sell_time |-> Some(alert_time),
                                  sell_price |-> candle_high])]

\* the trade tracker after the daily reset of a request handled at clock at
AfterReset(tracker, day, at) == IF at.day # day THEN NoTickers ELSE tracker

RECURSIVE CountTrades(_, _)
\* the trade records of the first n tickers of the tracker
CountTrades(tracker, n) ==
    IF n = 0 THEN 0
    ELSE Len(tracker[n][2].trades) + CountTrades(tracker, n - 1)

\* POST /webhook with body data, when Telegram answers msg_id.  The text of
\* the Telegram message is not kept.
tradingview_webhook(data, msg_id) ==
    IF data.type = "invalid"
    THEN /\ response' = [code |-> 400, detail |-> "Invalid JSON payload"]
         /\ UNCHANGED <<trade_tracker, current_day>>
    ELSE IF data.type # "dict"
    THEN /\ response' = [code |-> 400, detail |-> "Payload must be JSON object"]
         /\ UNCHANGED <<trade_tracker, current_day>>
    ELSE
      LET cleared    == AfterReset(trade_tracker, current_day, now)
          signal     == Upper(IF "signal" \in DOMAIN data.items
                              THEN data.items["signal"] ELSE "")
          ticker     == IF Truthy(data, "ticker") THEN data.items["ticker"]
                        ELSE IF Truthy(data, "asset") THEN data.items["asset"]
                        ELSE "UNKNOWN"
          candle_low  == GetOrNone(data, "candle_low")
          candle_high == GetOrNone(data, "candle_high")
          alert_time == IF Truthy(data, "time") THEN data.items["time"]
                        ELSE Strftime(now)
          known      == IF ticker \in Keys(cleared) THEN cleared
                        ELSE DictSet(cleared, ticker, NewTicker)
          trade      == Lookup(known, ticker)
          paired     == IF signal = "BUY"
                        THEN OnBuy(trade, alert_time, candle_low)
                        ELSE OnSell(trade, alert_time, candle_high)
          sent       == IF signal = "BUY" /\ msg_id # None
                        THEN [paired EXCEPT !.buy_message_id = msg_id]
                        ELSE paired
      IN  /\ current_day' = now.day
          /\ IF signal \notin {"BUY", "SELL"}
             THEN /\ trade_tracker' = cleared
                  /\ response' = [code |-> 400, detail |-> "Invalid signal"]
             ELSE /\ trade_tracker' = DictSet(known, ticker, sent)
                  /\ CountTrades(trade_tracker', Len(trade_tracker'))
                        <= MaxTrades
                  /\ response' =
                        [code |-> 200,
                         status |-> IF msg_id # None THEN "success"
                                    ELSE "telegram_failed",
                         signal |-> signal, ticker |-> ticker,
                         serial |-> sent.serial]

\* a request arrives at the webhook and is answered
Webhook(data, msg_id) ==
    /\ tradingview_webhook(data, msg_id)
    /\ UNCHANGED <<now, cfg, expiry_dt, scanvars>>

\* the moments alerts arrive at after the import: the opening of each later day
HookMoments == { [day |-> d, hour |-> 9, minute |-> 15] : d \in 1..MaxDay }

\* the alerts of the trading days while the clock runs
InitHook == Import(ImportMoment, ConcConfig)

NextHook ==
    \/ \E m \in HookMoments : Tick(m)
    \/ \E data \in Payloads, msg_id \in MessageIds : Webhook(data, msg_id)

SpecHook == InitHook /\ [][NextHook]_vars

-----------------------------------------------------------------------------
(* Vocabulary of the properties *)

Finished(s) == pc[s] = "done"

\* the batch loop of invocation s is over
Fetched(s) == pc[s] \in {"rank", "done"}

RECURSIVE Flatten(_)
Flatten(seqs) == IF seqs = <<>> THEN <<>> ELSE Head(seqs) \o Flatten(Tail(seqs))

OkReplies(s) ==
    { b \in 1..Len(replies[s]) : replies[s][b].outcome = "ok" }

FailedReplies(s) ==
    { b \in 1..Len(replies[s]) : replies[s][b].outcome # "ok" }

\* the <<symbol, quote>> pairs that the successful batches of s returned
Returned(s) ==
    UNION { { replies[s][b].data[i] : i \in 1..Len(replies[s][b].data) } :
            b \in OkReplies(s) }

\* a quote the pipeline can read: a mapping without null fields
Readable(q) ==
    /\ q.type = "dict"
    /\ \A k \in DOMAIN q.items : q.items[k] # None

\* the field of a readable quote, 0 when the quote does not carry it
Field(q, k) == IF k \in DOMAIN q.items THEN q.items[k][1] ELSE 0

\* the activity predicate of the specification
Active(q) ==
    /\ Readable(q)
    /\ Field(q, "openInterest") >= 3000
    /\ Field(q, "totalBuyQty") + Field(q, "totalSellQty") >= 15000
    /\ Field(q, "ltp") > 100

\* the liquidity proxy of the specification, in thousandths
Proxy(q) ==
    400 * Field(q, "openInterest")
    + 300 * (Field(q, "totalBuyQty") + Field(q, "totalSellQty"))
    + 200 * Field(q, "lastTradeQty")
    + Abs(Field(q, "high") - Field(q, "low"))

\* the symbols of the result of invocation s
InResult(s) == Keys(envelope[s].data)

\* the number of rounds of the batch loop
Rounds == Len(Range(cfg.STRIKE_START, cfg.STRIKE_END, BatchSpan))

-----------------------------------------------------------------------------
(* C1 *)

\* C1: whatever batches fail, the batch loop runs all its rounds, the
\* accumulator holds exactly the quotes of the successful batches, a failure
\* is never what turns the scan into an error, and a scan that returns a
\* result lists every active contract a successful batch returned.
C1_FailedBatchesAreSkipped ==
    \A s \in Scans :
        /\ Fetched(s) => Len(replies[s]) = Rounds
        /\ pc[s] # "idle" =>
              { raw_results[s][i] : i \in 1..Len(raw_results[s]) } = Returned(s)
        /\ Finished(s) =>
              /\ envelope[s].status = "error" =>
                    \E p \in Returned(s) : ~Readable(p[2])
              /\ envelope[s].status # "error" =>
                    \A p \in Returned(s) :
                        Active(p[2]) => p[1] \in InResult(s)

\* a finished scan whose first batch failed, whose second batch returned an
\* active contract, and whose result lists that contract
C1_Witness ==
    /\ Finished(1)
    /\ Len(replies[1]) = 2
    /\ replies[1][1].outcome = "timeout"
    /\ replies[1][2].outcome = "ok"
    /\ \E p \in Returned(1) : Active(p[2]) /\ p[1] \in InResult(1)

-----------------------------------------------------------------------------
(* C2 *)

\* C2: run_scanner returns an envelope whose status is success, empty or
\* error; when a retrieved quote has a null openInterest or is not a mapping
\* the status is error; an error envelope carries a message, a timestamp and
\* an empty data mapping.
C2_FaultsBecomeErrorEnvelopes ==
    \A s \in Scans :
        Finished(s) =>
            /\ envelope[s].status \in {"success", "empty", "error"}
            /\ (\E p \in Returned(s) :
                    \/ p[2].type # "dict"
                    \/ /\ "openInterest" \in DOMAIN p[2].items
                       /\ p[2].items["openInterest"] = None)
                  => envelope[s].status = "error"
            /\ envelope[s].status = "error" =>
                  /\ DOMAIN envelope[s]
                        = {"status", "message", "timestamp", "data"}
                  /\ envelope[s].message # ""
                  /\ envelope[s].data = EmptyDict

\* a finished scan that retrieved a quote that is not a mapping, next to an
\* active one, and returned the error envelope
C2_Witness ==
    /\ Finished(1)
    /\ envelope[1].status = "error"
    /\ \E p \in Returned(1) : p[2].type # "dict"
    /\ \E p \in Returned(1) : Active(p[2])

-----------------------------------------------------------------------------
(* C3 *)

\* C3: a scan of readable quotes none of which is active (or of no quotes at
\* all) returns status empty, count 0 and an empty data mapping; with an
\* active quote it returns status success and count = number of entries.
C3_EmptyHasCountZero ==
    \A s \in Scans :
        (Finished(s) /\ \A p \in Returned(s) : Readable(p[2])) =>
            IF \E p \in Returned(s) : Active(p[2])
            THEN /\ envelope[s].status = "success"
                 /\ envelope[s].count = Len(envelope[s].data)
            ELSE /\ envelope[s].status = "empty"
                 /\ "count" \in DOMAIN envelope[s]
                 /\ envelope[s].count = 0
                 /\ envelope[s].data = EmptyDict

-----------------------------------------------------------------------------
(* C4 *)

\* some retrieved quote, active or not, carries a volume above 0
VolumeSeen(s) ==
    \E p \in Returned(s) :
        /\ p[2].type = "dict"
        /\ Get(p[2], "volume") # None
        /\ Get(p[2], "volume")[1] > 0

\* C4: in a result, when some retrieved quote has volume > 0 every entry is
\* scored by its own raw volume, and when none has every entry is scored by
\* the liquidity proxy (scores in thousandths).
C4_OneFormulaPerScan ==
    \A s \in Scans :
        (Finished(s) /\ envelope[s].status = "success") =>
            \A i \in 1..Len(envelope[s].data) :
                LET symbol == envelope[s].data[i][1]
                    entry  == envelope[s].data[i][2]
                    quote  == Lookup(raw_results[s], symbol)
                IN  entry.rankScore =
                        IF VolumeSeen(s) THEN 1000 * Field(quote, "volume")
                        ELSE Proxy(quote)

\* a result where the only volume is on an inactive quote and an entry
\* without volume of its own is scored 0
C4_Witness ==
    /\ Finished(1)
    /\ envelope[1].status = "success"
    /\ \E p \in Returned(1) : ~Active(p[2]) /\ Field(p[2], "volume") > 0
    /\ \E i \in 1..Len(envelope[1].data) :
          /\ envelope[1].data[i][2].volume = Number(0)
          /\ envelope[1].data[i][2].rankScore = 0

-----------------------------------------------------------------------------
(* C5 *)

\* the place of a symbol in the order the symbol generator emitted it
Emitted(s, symbol) ==
    LET all == Flatten(requested[s])
    IN  CHOOSE i \in 1..Len(all) : all[i] = symbol

\* C5: the entries of a result are in descending rankScore, and entries of
\* equal rankScore are in the order the symbol generator emitted them.
C5_TiesInEmissionOrder ==
    \A s \in Scans :
        (Finished(s) /\ envelope[s].status = "success") =>
            \A i, j \in 1..Len(envelope[s].data) :
                i < j =>
                    LET a == envelope[s].data[i]
                        b == envelope[s].data[j]
                    IN  \/ a[2].rankScore > b[2].rankScore
                        \/ /\ a[2].rankScore = b[2].rankScore
                           /\ Emitted(s, a[1]) < Emitted(s, b[1])

-----------------------------------------------------------------------------
(* C6 *)

\* C6: a scan of readable quotes returns a result, and in the result of a
\* scan that returned one a retrieved contract is listed exactly when
\* openInterest >= 3000, totalBuyQty + totalSellQty >= 15000 and ltp > 1, a
\* missing field counting as 0; no scan lists a contract whose quote is
\* inactive.
C6_ActiveIffListed ==
    \A s \in Scans :
        Finished(s) =>
            /\ (\A p \in Returned(s) : Readable(p[2])) =>
                  envelope[s].status # "error"
            /\ envelope[s].status # "error" =>
                  \A p \in Returned(s) : p[1] \in InResult(s) <=> Active(p[2])
            /\ \A p \in Returned(s) : p[1] \in InResult(s) => Active(p[2])

\* a result that lists the contract with openInterest 3000, order quantity
\* 15000 and ltp 1.01 and leaves out the one with openInterest 2999
C6_Witness ==
    /\ Finished(1)
    /\ \E p \in Returned(1) : p[2] = QuoteBoundary /\ p[1] \in InResult(1)
    /\ \E p \in Returned(1) : p[2] = QuoteThinOI /\ p[1] \notin InResult(1)

-----------------------------------------------------------------------------
(* C7 *)

\* C7: the identifiers requested in the batches of one scan are, in order,
\* CE then PE of every strike of [STRIKE_START, STRIKE_END) stepped by
\* STRIKE_STEP, and nothing else.
C7_RequestsCoverTheRange ==
    \A s \in Scans :
        Fetched(s) =>
            Flatten(requested[s])
                = SymbolsOf(Range(cfg.STRIKE_START, cfg.STRIKE_END,
                                  cfg.STRIKE_STEP))

-----------------------------------------------------------------------------
(* C8 *)

\* C8: the resolved expiry is a Tuesday; resolved on a Tuesday it is that
\* day before 15:30 and the day a week later from 15:30 on; resolved on any
\* other weekday it is 1 to 6 days ahead.
C8_NearestTuesday ==
    LET ahead == expiry_dt.day - now.day
    IN  /\ Weekday(expiry_dt) = 1
        /\ IF now.day % 7 # 1 THEN ahead \in 1..6
           ELSE IF now.hour * 60 + now.minute < 15 * 60 + 30 THEN ahead = 0
           ELSE ahead = 7

\* resolved on Tuesday 2026-12-29 at exactly 15:30: the expiry is Tuesday
\* 2027-01-05
C8_Witness ==
    /\ now = [day |-> 1, hour |-> 15, minute |-> 30]
    /\ Civil(now.day) = [year |-> 2026, month |-> 12, day |-> 29]
    /\ Civil(expiry_dt.day) = [year |-> 2027, month |-> 1, day |-> 5]

-----------------------------------------------------------------------------
(* C9 *)

\* the request bodies of a scan whose symbols carry the expiry e
RequestsFor(e, s) ==
    [b \in 1..Len(requested[s]) |->
        [i \in 1..Len(requested[s][b]) |->
            LET strike == cfg.STRIKE_START + (b - 1) * BatchSpan
                              + ((i - 1) \div 2) * cfg.STRIKE_STEP
            IN  SymbolFor(e, strike, IF i % 2 = 1 THEN "CE" ELSE "PE")]]

\* C9: a scan builds its identifiers and its expiry label from the expiry
\* that the resolver yields at the moment the scan starts.
C9_ExpiryResolvedPerScan ==
    \A s \in Scans :
        LET fresh == get_weekly_expiry(began[s])
        IN  /\ pc[s] # "idle" => requested[s] = RequestsFor(fresh, s)
            /\ (Finished(s) /\ envelope[s].status = "success") =>
                  envelope[s].expiry = LabelFor(fresh)

-----------------------------------------------------------------------------
(* C10 *)

RECURSIVE MergedAlone(_, _)
\* the accumulator of a scan that receives the first n of the replies rs and
\* runs alone
MergedAlone(rs, n) ==
    IF n = 0 THEN EmptyDict
    ELSE DictUpdate(MergedAlone(rs, n - 1), fetch_live_data(rs[n]))

\* C10: while invocations overlap, the accumulator of each holds its own
\* replies and nothing else, and what an invocation returns is what it
\* returns when it runs alone on the same replies.
C10_ScansAreIsolated ==
    \A s \in Scans :
        /\ pc[s] # "idle" =>
              raw_results[s] = MergedAlone(replies[s], Len(replies[s]))
        /\ Finished(s) =>
              /\ InResult(s) \subseteq { p[1] : p \in Returned(s) }
              /\ LET alone == Envelope(RankResults(
                                   MergedAlone(replies[s], Len(replies[s]))),
                                   now)
                 IN  /\ envelope[s].status = alone.status
                     /\ envelope[s].data = alone.data

\* invocation 1 has returned the CE contract, invocation 2 is still in
\* flight and has accumulated the PE contract only
C10_Witness ==
    /\ Finished(1)
    /\ envelope[1].status = "success"
    /\ pc[2] = "rank"
    /\ Len(raw_results[2]) = 1
    /\ InResult(1) \cap Keys(raw_results[2]) = {}
    /\ Len(envelope[1].data) = 1

-----------------------------------------------------------------------------
(* C11 *)

\* the trade records of ticker t in a tracker, none when t is not tracked
TradesOf(tracker, t) ==
    IF t \in Keys(tracker) THEN Lookup(tracker, t).trades ELSE <<>>

\* a ticker's last record is open: it has no sell time
LastOpen(trades) == trades # <<>> /\ trades[Len(trades)].sell_time = None

\* for every tracked ticker the serial counts the records, the k-th record
\* carries serial k, and open_trade tells whether the last record is open
TrackerConsistent ==
    \A i \in 1..Len(trade_tracker) :
        LET trade == trade_tracker[i][2]
        IN  /\ trade.serial = Len(trade.trades)
            /\ \A k \in 1..Len(trade.trades) : trade.trades[k].serial = k
            /\ trade.open_trade <=> LastOpen(trade.trades)

\* a request is answered in this step
Answered == \E data \in Payloads, msg_id \in MessageIds : Webhook(data, msg_id)

\* an accepted SELL fills the open last record of its ticker, and appends a
\* sell-only record when there is none; the records it starts from are those
\* left by the daily reset
SellPairs ==
    (Answered /\ response'.code = 200 /\ response'.signal = "SELL") =>
        LET old == TradesOf(AfterReset(trade_tracker, current_day, now),
                            response'.ticker)
            new == TradesOf(trade_tracker', response'.ticker)
        IN  IF LastOpen(old)
            THEN /\ Len(new) = Len(old)
                 /\ \A k \in 1..(Len(old) - 1) : new[k] = old[k]
                 /\ new[Len(new)].sell_time # None
                 /\ new[Len(new)].buy_time = old[Len(old)].buy_time
                 /\ new[Len(new)].serial = old[Len(old)].serial
            ELSE /\ Len(new) = Len(old) + 1
                 /\ \A k \in 1..Len(old) : new[k] = old[k]
                 /\ new[Len(new)].buy_time = None
                 /\ new[Len(new)].sell_time # None

\* an alert rejected for its signal leaves the tracker and its day as they were
RejectedChangesNothing ==
    (Answered /\ response'.code = 400 /\ response'.detail = "Invalid signal")
        => UNCHANGED <<trade_tracker, current_day>>

\* C11 (first part): after any sequence of alerts and daily resets the serial
\* of every tracked ticker equals the number of its records, the k-th record
\* carries serial k, and open_trade holds exactly when the last record has no
\* sell time.
C11_TrackerConsistent == TrackerConsistent

\* C11 (second part): a SELL fills the sell time of the last record when that
\* record is open and otherwise appends a new sell-only record.
C11_SellPairs == [][SellPairs]_vars

\* C11: the tracker is consistent after every step, a SELL is paired as above,
\* and rejected alerts (signal other than BUY or SELL) change nothing.
C11_TrackerClaim ==
    [][TrackerConsistent' /\ SellPairs /\ RejectedChangesNothing]_vars

====
